---- MODULE Spec2Model ----
(***************************************************************************)
(* gba-types: bit-packed register values (bitstruct_newtype!) and their    *)
(* per-field accessors (phantom_field_get! / phantom_field_set!), with the *)
(* const_enum! newtypes used as the payload of the "enum-like" fields.     *)
(*                                                                         *)
(* Unsigned integers are naturals; an `as u8` / `as u16` cast is % 2^W.    *)
(* The casts to usize and the 1_u64 arithmetic only ever widen values      *)
(* below 2^17, so they keep the value.                                     *)
(***************************************************************************)
EXTENDS Naturals, Sequences, FiniteSets

VARIABLES reg, raw, backing, before, call, ret, ncalls

vars == <<reg, raw, backing, before, call, ret, ncalls>>

\* Number of setter calls made on one register value in a run.
MaxCalls == 1

----------------------------------------------------------------------------
\* Primitive integer operators of the accessors' code.

\* a & b
RECURSIVE BitAnd(_, _)
BitAnd(a, b) ==
    IF a = 0 \/ b = 0 THEN 0
    ELSE (a % 2) * (b % 2) + 2 * BitAnd(a \div 2, b \div 2)

\* a ^ b
RECURSIVE BitXor(_, _)
BitXor(a, b) ==
    IF a = 0 THEN b
    ELSE IF b = 0 THEN a
    ELSE ((a + b) % 2) + 2 * BitXor(a \div 2, b \div 2)

\* a << n in a type wide enough to hold the result (usize, u64, i32 here)
Shl(a, n) == a * 2^n

\* a >> n
Shr(a, n) == a \div 2^n

\* x as $inner, for an $inner of W bits
Narrow(x, W) == x % 2^W

\* a << n computed in $inner itself: the bits shifted past bit W-1 are lost
ShlInner(a, n, W) == (a % 2^(W - n)) * 2^n

\* bit_get! with | in place of &
bit_get_or(val, mask) == val + mask - BitAnd(val, mask)

\* bit_get!($val, $mask)
bit_get(val, mask) == BitAnd(val, mask)

\* bit_set! without the mask: the whole word is replaced
bit_set_unmasked(val, mask, new) == BitXor(val, BitXor(val, new))

\* bit_set! as an OR of the masked new value: old 1-bits are never cleared
bit_set_or(val, mask, new) == val + BitAnd(new, mask) - BitAnd(val, BitAnd(new, mask))

\* bit_set! without the inner a ^ b: the new bits are toggled into the old
bit_set_toggle(val, mask, new) == BitXor(val, BitAnd(new, mask))

\* bit_set!($val, $mask, $new)
bit_set(val, mask, new) == BitXor(val, BitAnd(BitXor(val, new), mask))

\* MASK with 1 << $end in place of 1 << ($end + 1): the top bit is missing
MASK_short(W, start, end) == Narrow(Shl(Shr(Shl(1, end) - 1, start), start), W)

\* MASK of the field width, not shifted to $start
MASK_unshifted(W, start, end) == Narrow(Shl(1, end - start + 1) - 1, W)

\* MASK with 1 << ($end + 2): one bit above the field is included
MASK_long(W, start, end) == Narrow(Shl(Shr(Shl(1, end + 2) - 1, start), start), W)

\* const MASK: $inner = ((((1_u64 << ($end + 1)) - 1) >> $start) << $start) as $inner
MASK(W, start, end) == Narrow(Shl(Shr(Shl(1, end + 1) - 1, start), start), W)

----------------------------------------------------------------------------
\* phantom_field_get!: the three getters, as functions of self.0

\* the bool getter with $bit itself as the mask, not 1 << $bit
GetBool_bitAsMask(v, bit) == bit_get(v, bit) # 0

GetBool(v, bit) == bit_get(v, Shl(1, bit)) # 0

\* the raw-integer getter without >> $start
GetInt_unshifted(v, W, start, end) == Narrow(bit_get(v, MASK(W, start, end)), W)

GetInt(v, W, start, end) == Narrow(Shr(bit_get(v, MASK(W, start, end)), start), W)

\* the symbolic getter with the raw-integer getter's >> $start
GetSym_shifted(v, W, start, end) ==
    Narrow(Shr(bit_get(v, MASK(W, start, end)), start), W)

\* the wrapped integer of the returned $nt
GetSym(v, W, start, end) == Narrow(bit_get(v, MASK(W, start, end)), W)

\* phantom_field_set!: the three setters, giving the new self.0

BoolAsUsize(g) == IF g THEN 1 ELSE 0

SetBool(v, W, bit, g) ==
    Narrow(bit_set(v, Shl(1, bit), Shl(BoolAsUsize(g), bit)), W)

\* the raw-integer setter as clear-then-OR with the unmasked $g << $start
SetInt_clearThenOr(v, W, start, end, g) ==
    Narrow((v - BitAnd(v, MASK(W, start, end))) + ShlInner(g, start, W)
             - BitAnd(v - BitAnd(v, MASK(W, start, end)), ShlInner(g, start, W)),
           W)

SetInt(v, W, start, end, g) ==
    Narrow(bit_set(v, MASK(W, start, end), ShlInner(g, start, W)), W)

\* the symbolic setter with the raw-integer setter's $g << $start
SetSym_shifting(v, W, start, end, g) ==
    Narrow(bit_set(v, MASK(W, start, end), ShlInner(g, start, W)), W)

\* g is the wrapped integer $g.0 of the $nt argument
SetSym(v, W, start, end, g) ==
    Narrow(bit_set(v, MASK(W, start, end), g), W)

----------------------------------------------------------------------------
\* Field declarations of bitstruct_newtype!: the three token shapes the
\* accessor macros match.

\* [$bit: $g, $s]
BoolField(bit, g) ==
    [kind |-> "bool", start |-> bit, end |-> bit, nt |-> "", g |-> g]

\* [$start - $end: $g, $s]
IntField(start, end, g) ==
    [kind |-> "int", start |-> start, end |-> end, nt |-> "", g |-> g]

\* [$start - $end => $nt: $g, $s]
SymField(start, end, nt, g) ==
    [kind |-> "sym", start |-> start, end |-> end, nt |-> nt, g |-> g]

\* pub struct $name($inner) with its declared fields
Register(name, width, fields) ==
    [name |-> name, width |-> width, fields |-> fields]

\* const_enum! types: the wrapped integers of the named constants.

\* _0, _1, _2, _3, _4, _5
VideoMode == {0, 1, 2, 3, 4, 5}

\* NoEffect, AlphaBlend, BrightnessIncrease, BrightnessDecrease
BlendEffect == {Shl(0, 6), Shl(1, 6), Shl(2, 6), Shl(3, 6)}

\* Normal, Affine, Disabled, DoubleSizeAffine
ObjDisplayMode == {Shl(0, 8), Shl(1, 8), Shl(2, 8), Shl(3, 8)}

\* _12_5, _25, _50, _75
ToneWavePatternDuty == {Shl(0, 6), Shl(1, 6), Shl(2, 6), Shl(3, 6)}

\* _0, _100, _50, _25, _75
WaveVolume == {Shl(0, 5), Shl(1, 5), Shl(2, 5), Shl(3, 5), Shl(4, 5)}

\* _25, _50, _100
GeneratedSoundMixingVolume == {0, 1, 2}

\* _9bit, _8bit, _7bit, _6bit
SoundBiasSamplingSetting == {Shl(0, 14), Shl(1, 14), Shl(2, 14), Shl(3, 14)}

\* _1, _64, _256, _1024
TimerScaleFactor == {0, 1, 2, 3}

\* Increment, Decrement, Fixed, IncrementReload
DmaDestinationAddressControl == {Shl(0, 5), Shl(1, 5), Shl(2, 5), Shl(3, 5)}

\* Increment, Decrement, Fixed
DmaSourceAddressControl == {0, 1, 2}

\* Immediate, Vblank, Hblank, Special
DmaStartTiming == {0, 1, 2, 3}

\* _4, _3, _2, _8
SramWaitControlCycles == {0, 1, 2, 3}

\* _4, _3, _2, _8
Rom0WaitControlCycles == {Shl(0, 2), Shl(1, 2), Shl(2, 2), Shl(3, 2)}

\* _4, _3, _2, _8
Rom1WaitControlCycles == {Shl(0, 5), Shl(1, 5), Shl(2, 5), Shl(3, 5)}

\* _4, _3, _2, _8
Rom2WaitControlCycles == {Shl(0, 8), Shl(1, 8), Shl(2, 8), Shl(3, 8)}

\* Disabled, _4_19MHz, _8_38MHz, _16_78MHz
PhiTerminalOutput == {Shl(0, 11), Shl(1, 11), Shl(2, 11), Shl(3, 11)}

\* bitstruct_newtype! types: backing width and declared fields, in order.
\* (timer.rs and dma.rs declare TimerControlSetting and DmaControlSetting
\* with the same fields and constants as lib.rs.)

DisplayControlSetting ==
    Register("DisplayControlSetting", 16, <<
        SymField(0, 2, "VideoMode", "video_mode"),
        BoolField(4, "show_frame1"),
        BoolField(5, "hblank_oam_free"),
        BoolField(6, "obj_vram_is_1d"),
        BoolField(7, "forced_blank"),
        BoolField(8, "display_bg0"),
        BoolField(9, "display_bg1"),
        BoolField(10, "display_bg2"),
        BoolField(11, "display_bg3"),
        BoolField(12, "display_obj"),
        BoolField(13, "display_win0"),
        BoolField(14, "display_win1"),
        BoolField(15, "display_obj_win")>>)

DisplayStatusSetting ==
    Register("DisplayStatusSetting", 16, <<
        BoolField(0, "is_vblank"),
        BoolField(1, "is_hblank"),
        BoolField(2, "is_vcount_match"),
        BoolField(3, "vblank_irq_enabled"),
        BoolField(4, "hblank_irq_enabled"),
        BoolField(5, "vcount_match_irq_enabled"),
        IntField(8, 15, "vcount_setting")>>)

BackgroundControlSetting ==
    Register("BackgroundControlSetting", 16, <<
        IntField(0, 1, "background_priority"),
        IntField(2, 3, "base_charblock"),
        BoolField(6, "use_mosaic"),
        BoolField(7, "is_8bpp"),
        IntField(8, 12, "base_screenblock"),
        BoolField(13, "affine_overflow_wraparound"),
        IntField(14, 15, "screen_size")>>)

WindowContentSetting ==
    Register("WindowContentSetting", 8, <<
        BoolField(0, "display_bg0"),
        BoolField(1, "display_bg1"),
        BoolField(2, "display_bg2"),
        BoolField(3, "display_bg3"),
        BoolField(4, "display_obj"),
        BoolField(5, "display_special_effect")>>)

MosaicSetting ==
    Register("MosaicSetting", 8, <<
        IntField(0, 3, "horizontal_size"),
        IntField(4, 7, "vertical_size")>>)

ColorBlendControlSetting ==
    Register("ColorBlendControlSetting", 16, <<
        BoolField(0, "first_target_bg0"),
        BoolField(1, "first_target_bg1"),
        BoolField(2, "first_target_bg2"),
        BoolField(3, "first_target_bg3"),
        BoolField(4, "first_target_obj"),
        BoolField(5, "first_target_backdrop"),
        SymField(6, 7, "BlendEffect", "blend_effect"),
        BoolField(8, "second_target_bg0"),
        BoolField(9, "second_target_bg1"),
        BoolField(10, "second_target_bg2"),
        BoolField(11, "second_target_bg3"),
        BoolField(12, "second_target_obj"),
        BoolField(13, "second_target_backdrop")>>)

TextScreenEntry ==
    Register("TextScreenEntry", 16, <<
        IntField(0, 9, "tile_id"),
        BoolField(10, "horizontal_flip"),
        BoolField(11, "vertical_flip"),
        IntField(12, 15, "palbank")>>)

Color ==
    Register("Color", 16, <<
        IntField(0, 4, "red"),
        IntField(5, 9, "green"),
        IntField(10, 14, "blue")>>)

ObjAttr0 ==
    Register("ObjAttr0", 16, <<
        IntField(0, 7, "y_coordinate"),
        SymField(8, 9, "ObjDisplayMode", "obj_display_mode"),
        IntField(10, 11, "obj_mode"),
        BoolField(12, "use_mosaic"),
        BoolField(13, "is_8bpp"),
        IntField(14, 15, "obj_shape")>>)

ObjAttr1 ==
    Register("ObjAttr1", 16, <<
        IntField(0, 8, "x_coordinate"),
        IntField(9, 13, "affine_param"),
        BoolField(12, "horizontal_flip"),
        BoolField(13, "vertical_flip"),
        IntField(14, 15, "obj_size")>>)

ObjAttr2 ==
    Register("ObjAttr2", 16, <<
        IntField(0, 9, "base_tile_id"),
        IntField(10, 11, "priority"),
        IntField(12, 15, "palbank")>>)

ToneSweep ==
    Register("ToneSweep", 8, <<
        IntField(0, 2, "sweep_shift_count"),
        BoolField(3, "decreasing_sweep"),
        IntField(4, 6, "sweep_time_chunk")>>)

ToneDutyLenEnvelope ==
    Register("ToneDutyLenEnvelope", 16, <<
        IntField(0, 5, "sound_length"),
        SymField(6, 7, "ToneWavePatternDuty", "decreasing_sweep"),
        IntField(8, 10, "envelope_step_time"),
        BoolField(11, "increasing_envelope"),
        IntField(12, 15, "initial_volume")>>)

ToneFrequencyControl ==
    Register("ToneFrequencyControl", 16, <<
        IntField(0, 10, "frequency"),
        BoolField(14, "stop_at_end"),
        BoolField(15, "init")>>)

WaveRamSelect ==
    Register("WaveRamSelect", 8, <<
        BoolField(5, "two_banks"),
        BoolField(6, "using_bank1"),
        BoolField(7, "playing")>>)

WaveVolumeSetting ==
    Register("WaveVolumeSetting", 8, <<
        SymField(5, 7, "WaveVolume", "volume")>>)

WaveFrequencyControl ==
    Register("WaveFrequencyControl", 16, <<
        IntField(0, 10, "sample_rate"),
        BoolField(14, "stop_at_end"),
        BoolField(15, "init")>>)

NoiseLengthEnvelope ==
    Register("NoiseLengthEnvelope", 16, <<
        IntField(0, 5, "length"),
        IntField(8, 10, "envelope_step_time"),
        BoolField(11, "increasing_envelope"),
        IntField(12, 15, "initial_volume")>>)

NoiseFrequencyControl ==
    Register("NoiseFrequencyControl", 16, <<
        IntField(0, 2, "dividing_ratio"),
        BoolField(3, "step_width_7bits"),
        IntField(4, 7, "shift_clock_frequency"),
        BoolField(14, "stop_at_end"),
        BoolField(15, "init")>>)

GeneratedSoundLeftRightMainVolume ==
    Register("GeneratedSoundLeftRightMainVolume", 8, <<
        IntField(0, 2, "right"),
        IntField(4, 6, "left")>>)

GeneratedSoundLeftRightEnabled ==
    Register("GeneratedSoundLeftRightEnabled", 8, <<
        BoolField(0, "right_sound_1_enabled"),
        BoolField(1, "right_sound_2_enabled"),
        BoolField(2, "right_sound_3_enabled"),
        BoolField(3, "right_sound_4_enabled"),
        BoolField(4, "left_sound_1_enabled"),
        BoolField(5, "left_sound_2_enabled"),
        BoolField(6, "left_sound_3_enabled"),
        BoolField(7, "left_sound_4_enabled")>>)

DmaSoundMixVolumeControl ==
    Register("DmaSoundMixVolumeControl", 8, <<
        SymField(0, 1, "GeneratedSoundMixingVolume", "generated_volume"),
        BoolField(2, "sound_a_full"),
        BoolField(3, "sound_b_full")>>)

DmaSoundControlBits ==
    Register("DmaSoundControlBits", 8, <<
        BoolField(0, "sound_a_right"),
        BoolField(1, "sound_a_left"),
        BoolField(2, "sound_a_timer1"),
        BoolField(3, "sound_a_fifo_reset"),
        BoolField(4, "sound_b_right"),
        BoolField(5, "sound_b_left"),
        BoolField(6, "sound_b_timer1"),
        BoolField(7, "sound_b_fifo_reset")>>)

GeneratedSoundActiveBits ==
    Register("GeneratedSoundActiveBits", 8, <<
        BoolField(0, "sound_1_active"),
        BoolField(1, "sound_2_active"),
        BoolField(2, "sound_3_active"),
        BoolField(3, "sound_4_active"),
        BoolField(7, "sound_enabled")>>)

SoundBiasSetting ==
    Register("SoundBiasSetting", 16, <<
        IntField(1, 9, "bias_level"),
        SymField(14, 15, "SoundBiasSamplingSetting", "sampling_cycle")>>)

TimerControlSetting ==
    Register("TimerControlSetting", 8, <<
        SymField(0, 1, "TimerScaleFactor", "scale_factor"),
        BoolField(2, "overflow_counting"),
        BoolField(6, "interrupt_on_overflow"),
        BoolField(7, "enabled")>>)

DmaControlSetting ==
    Register("DmaControlSetting", 16, <<
        SymField(5, 6, "DmaDestinationAddressControl", "dst_addr_control"),
        SymField(7, 8, "DmaSourceAddressControl", "src_addr_control"),
        BoolField(9, "repeating"),
        BoolField(10, "transfer32"),
        SymField(12, 13, "DmaStartTiming", "start_timing"),
        BoolField(14, "interrupt_when_complete"),
        BoolField(15, "enabled")>>)

KeyInputLowActive ==
    Register("KeyInputLowActive", 16, <<
        BoolField(0, "a_released"),
        BoolField(1, "b_released"),
        BoolField(2, "select_released"),
        BoolField(3, "start_released"),
        BoolField(4, "right_released"),
        BoolField(5, "left_released"),
        BoolField(6, "up_released"),
        BoolField(7, "down_released"),
        BoolField(8, "r_released"),
        BoolField(9, "l_released")>>)

KeyInterruptBits ==
    Register("KeyInterruptBits", 16, <<
        BoolField(0, "a_selected"),
        BoolField(1, "b_selected"),
        BoolField(2, "select_selected"),
        BoolField(3, "start_selected"),
        BoolField(4, "right_selected"),
        BoolField(5, "left_selected"),
        BoolField(6, "up_selected"),
        BoolField(7, "down_selected"),
        BoolField(8, "r_selected"),
        BoolField(9, "l_selected"),
        BoolField(14, "key_interrupts_enabled"),
        BoolField(15, "interrupt_requires_all_bits")>>)

InterruptFlagBits ==
    Register("InterruptFlagBits", 16, <<
        BoolField(0, "vblank"),
        BoolField(1, "hblank"),
        BoolField(2, "vcount_match"),
        BoolField(3, "timer0"),
        BoolField(4, "timer1"),
        BoolField(5, "timer2"),
        BoolField(6, "timer3"),
        BoolField(7, "serial_communication"),
        BoolField(8, "dma0"),
        BoolField(9, "dma1"),
        BoolField(10, "dma2"),
        BoolField(11, "dma3"),
        BoolField(12, "keypad"),
        BoolField(13, "game_pak")>>)

WaitControlSetting ==
    Register("WaitControlSetting", 16, <<
        SymField(0, 1, "SramWaitControlCycles", "sram_wait"),
        SymField(2, 3, "Rom0WaitControlCycles", "wait0_first_access"),
        BoolField(4, "wait0_second_access_1cycle"),
        SymField(5, 6, "Rom1WaitControlCycles", "wait1_first_access"),
        BoolField(7, "wait1_second_access_1cycle"),
        SymField(8, 9, "Rom2WaitControlCycles", "wait2_first_access"),
        BoolField(10, "wait2_second_access_1cycle"),
        SymField(11, 12, "PhiTerminalOutput", "phi_terminal"),
        BoolField(14, "game_pak_prefetch_enabled")>>)

NamedConsts(nt) ==
    CASE nt = "VideoMode" -> VideoMode
      [] nt = "BlendEffect" -> BlendEffect
      [] nt = "ObjDisplayMode" -> ObjDisplayMode
      [] nt = "ToneWavePatternDuty" -> ToneWavePatternDuty
      [] nt = "WaveVolume" -> WaveVolume
      [] nt = "GeneratedSoundMixingVolume" -> GeneratedSoundMixingVolume
      [] nt = "SoundBiasSamplingSetting" -> SoundBiasSamplingSetting
      [] nt = "TimerScaleFactor" -> TimerScaleFactor
      [] nt = "DmaDestinationAddressControl" -> DmaDestinationAddressControl
      [] nt = "DmaSourceAddressControl" -> DmaSourceAddressControl
      [] nt = "DmaStartTiming" -> DmaStartTiming
      [] nt = "SramWaitControlCycles" -> SramWaitControlCycles
      [] nt = "Rom0WaitControlCycles" -> Rom0WaitControlCycles
      [] nt = "Rom1WaitControlCycles" -> Rom1WaitControlCycles
      [] nt = "Rom2WaitControlCycles" -> Rom2WaitControlCycles
      [] nt = "PhiTerminalOutput" -> PhiTerminalOutput

Catalog ==
    {DisplayControlSetting,
     DisplayStatusSetting,
     BackgroundControlSetting,
     WindowContentSetting,
     MosaicSetting,
     ColorBlendControlSetting,
     TextScreenEntry,
     Color,
     ObjAttr0,
     ObjAttr1,
     ObjAttr2,
     ToneSweep,
     ToneDutyLenEnvelope,
     ToneFrequencyControl,
     WaveRamSelect,
     WaveVolumeSetting,
     WaveFrequencyControl,
     NoiseLengthEnvelope,
     NoiseFrequencyControl,
     GeneratedSoundLeftRightMainVolume,
     GeneratedSoundLeftRightEnabled,
     DmaSoundMixVolumeControl,
     DmaSoundControlBits,
     GeneratedSoundActiveBits,
     SoundBiasSetting,
     TimerControlSetting,
     DmaControlSetting,
     KeyInputLowActive,
     KeyInterruptBits,
     InterruptFlagBits,
     WaitControlSetting}

----------------------------------------------------------------------------
\* State: one register value and the record of the calls made on it.
\*   reg      the register type ($name, $inner, its fields)
\*   raw      the integer the value was built from (0 for Default, else
\*            whatever the hardware location held)
\*   backing  self.0
\*   before   self.0 before the last setter call
\*   call     the last setter call: field index and argument (field 0: none)
\*   ret      what the last getter returned since the last setter call
\*            (field 0: no getter called)
\*   ncalls   number of setter calls so far

InnerMax(W) == 2^W - 1

FieldMax(f) == 2^(f.end - f.start + 1) - 1

\* Backing integers a register value starts from: Default (0), and bit
\* patterns read from the hardware location (all ones, 0x5A5A, 0xA5A5).
Raws(W) == {0, InnerMax(W), 23130 % 2^W, 42405 % 2^W}

\* Arguments tried for a raw-integer setter: values that fit the field and
\* values of $inner that do not.
IntArgs(W, f) ==
    {x \in {0, 1, FieldMax(f) - 1, FieldMax(f), FieldMax(f) + 1, InnerMax(W)} :
        x <= InnerMax(W)}

\* Arguments tried for a symbolic setter: the named constants and Default.
SymArgs(f) == NamedConsts(f.nt) \cup {0}

\* The value the last getter of field i returned, ready to be passed back.
Returned(i) == IF ret.field = i THEN {ret.value} ELSE {}

FieldIds == 1..Len(reg.fields)

Init ==
    /\ reg \in Catalog
    /\ raw \in Raws(reg.width)
    /\ backing = raw
    /\ before = raw
    /\ call = [field |-> 0, arg |-> 0]
    /\ ret = [field |-> 0, value |-> 0]
    /\ ncalls = 0

Stored(i, g, new) ==
    /\ backing' = new
    /\ before' = backing
    /\ call' = [field |-> i, arg |-> g]
    /\ ret' = [field |-> 0, value |-> 0]
    /\ ncalls' = ncalls + 1
    /\ UNCHANGED <<reg, raw>>

Got(i, value) ==
    /\ ret' = [field |-> i, value |-> value]
    /\ UNCHANGED <<reg, raw, backing, before, call, ncalls>>

\* pub const fn $s(&mut self, $g: bool)
set_bool ==
    \E i \in FieldIds :
        /\ reg.fields[i].kind = "bool"
        /\ ncalls < MaxCalls
        /\ \E g \in BOOLEAN \cup Returned(i) :
               Stored(i, g, SetBool(backing, reg.width, reg.fields[i].start, g))

\* pub const fn $s(&mut self, $g: $inner)
set_int ==
    \E i \in FieldIds :
        /\ reg.fields[i].kind = "int"
        /\ ncalls < MaxCalls
        /\ \E g \in IntArgs(reg.width, reg.fields[i]) \cup Returned(i) :
               Stored(i, g, SetInt(backing, reg.width, reg.fields[i].start,
                                   reg.fields[i].end, g))

\* pub const fn $s(&mut self, $g: $nt)
set_sym ==
    \E i \in FieldIds :
        /\ reg.fields[i].kind = "sym"
        /\ ncalls < MaxCalls
        /\ \E g \in SymArgs(reg.fields[i]) \cup Returned(i) :
               Stored(i, g, SetSym(backing, reg.width, reg.fields[i].start,
                                   reg.fields[i].end, g))

\* pub const fn $g(self) -> bool
get_bool ==
    \E i \in FieldIds :
        /\ reg.fields[i].kind = "bool"
        /\ Got(i, GetBool(backing, reg.fields[i].start))

\* pub const fn $g(self) -> $inner
get_int ==
    \E i \in FieldIds :
        /\ reg.fields[i].kind = "int"
        /\ Got(i, GetInt(backing, reg.width, reg.fields[i].start,
                         reg.fields[i].end))

\* pub const fn $g(self) -> $nt
get_sym ==
    \E i \in FieldIds :
        /\ reg.fields[i].kind = "sym"
        /\ Got(i, GetSym(backing, reg.width, reg.fields[i].start,
                         reg.fields[i].end))

Next ==
    \/ set_bool
    \/ set_int
    \/ set_sym
    \/ get_bool
    \/ get_int
    \/ get_sym

Spec == Init /\ [][Next]_vars

----------------------------------------------------------------------------
\* The accessor macros instantiated for every field range of an 8- and a
\* 16-bit backing type: a register with the one field [start, end], as a
\* bool field when start = end and as a raw-integer field for every range.

Widths == {8, 16}

Ranges(W) == {r \in (0..(W - 1)) \X (0..(W - 1)) : r[1] <= r[2]}

Instantiations ==
    {Register("bools", W, <<BoolField(bit, "g")>>) :
        W \in Widths, bit \in 0..15} \cup
    {Register("raw ints", W, <<IntField(r[1], r[2], "g")>>) :
        W \in Widths, r \in Ranges(16)}

MacroLayouts == {l \in Instantiations : l.fields[1].end < l.width}

\* Every backing value for the 8-bit bool instantiations, the sample
\* patterns for the others.
MacroRaws(l) ==
    IF l.width = 8 /\ l.fields[1].kind = "bool"
    THEN 0..InnerMax(8)
    ELSE Raws(l.width)

InitMacro ==
    /\ reg \in MacroLayouts
    /\ raw \in MacroRaws(reg)
    /\ backing = raw
    /\ before = raw
    /\ call = [field |-> 0, arg |-> 0]
    /\ ret = [field |-> 0, value |-> 0]
    /\ ncalls = 0

NextMacro ==
    \/ set_bool
    \/ set_int
    \/ get_bool
    \/ get_int

SpecMacro == InitMacro /\ [][NextMacro]_vars

----------------------------------------------------------------------------
\* Vocabulary of the properties.

\* bit n of v
Bit(v, n) == (v \div 2^n) % 2

\* a | b
BitOr(a, b) == a + b - BitAnd(a, b)

\* number of bits of field f
FieldBits(f) == f.end - f.start + 1

\* the field bits of v, right-aligned
Extract(v, f) == (v \div 2^f.start) % 2^FieldBits(f)

\* the integer with 1-bits exactly at the positions of field f
RangeMask(f) == (2^FieldBits(f) - 1) * 2^f.start

\* a setter has been called; the field it belongs to
Called == call.field # 0
CalledField == reg.fields[call.field]

\* a getter has been called on the current value; the field it belongs to
Read == ret.field # 0
ReadField == reg.fields[ret.field]

\* the getter of field f applied to the backing value v
Getter(f, v) ==
    CASE f.kind = "bool" -> GetBool(v, f.start)
      [] f.kind = "int" -> GetInt(v, reg.width, f.start, f.end)
      [] f.kind = "sym" -> GetSym(v, reg.width, f.start, f.end)

\* the setter of field f applied to the backing value v with argument g
Setter(f, v, g) ==
    CASE f.kind = "bool" -> SetBool(v, reg.width, f.start, g)
      [] f.kind = "int" -> SetInt(v, reg.width, f.start, f.end, g)
      [] f.kind = "sym" -> SetSym(v, reg.width, f.start, f.end, g)

\* the arguments tried for the setter of field f
Args(f) ==
    CASE f.kind = "bool" -> BOOLEAN
      [] f.kind = "int" -> IntArgs(reg.width, f)
      [] f.kind = "sym" -> SymArgs(f)

----------------------------------------------------------------------------
\* C1. Frame: after any setter call (boolean, raw-integer or symbolic, any
\* argument) every bit of the backing value outside the field's range
\* [start, end] is the bit the backing value had before the call.
C1_SetterFrame ==
    Called =>
        \A n \in 0..(reg.width - 1) :
            (n < CalledField.start \/ n > CalledField.end)
                => Bit(backing, n) = Bit(before, n)

\* C1 witness: a symbolic setter changed its field in a value that has
\* 1-bits outside the field.
C1_Witness ==
    /\ Called
    /\ CalledField.kind = "sym"
    /\ backing # before
    /\ BitAnd(before, InnerMax(reg.width) - RangeMask(CalledField)) # 0

\* C2. Round trip of boolean and raw-integer fields, for the widths 8 and
\* 16 and every range: a getter called after the field's setter returns the
\* setter's argument, when the argument is representable in the field.
C2_RoundTrip ==
    (Read /\ Called /\ ret.field = call.field)
        => \/ /\ ReadField.kind = "int"
              /\ call.arg > FieldMax(ReadField)
           \/ ret.value = call.arg

\* C2 witness: a raw-integer field ending at bit 15 and not starting at
\* bit 0 was set from 0 to its largest value, and then read.
C2_Witness ==
    /\ Read /\ Called /\ ret.field = call.field
    /\ ReadField.kind = "int"
    /\ ReadField.start > 0 /\ ReadField.end = 15
    /\ before = 0
    /\ call.arg = FieldMax(ReadField)

\* C3. Round trip of symbolic fields: for every symbolic field of the
\* catalog and every named constant c of its type, a getter called after
\* the setter was called with c returns a value equal to c.
C3_SymbolicRoundTrip ==
    (Read /\ Called /\ ret.field = call.field
          /\ ReadField.kind = "sym"
          /\ call.arg \in NamedConsts(ReadField.nt))
        => ret.value = call.arg

\* C4. Setting a field does not alter other fields: after any setter call,
\* the getter of every other field of the register returns what it
\* returned before the call.
C4_OtherFieldsUnchanged ==
    Called =>
        \A j \in FieldIds :
            j # call.field
                => Getter(reg.fields[j], backing) = Getter(reg.fields[j], before)

\* C5. Catalog invariant: the bit ranges of any two distinct declared fields
\* of a register type are disjoint, and every range satisfies
\* 0 <= start <= end < backing width.
C5_FieldsDisjoint ==
    /\ \A i, j \in FieldIds :
           i # j => \/ reg.fields[i].end < reg.fields[j].start
                    \/ reg.fields[j].end < reg.fields[i].start
    /\ \A i \in FieldIds :
           /\ 0 <= reg.fields[i].start
           /\ reg.fields[i].start <= reg.fields[i].end
           /\ reg.fields[i].end < reg.width

\* C6 as stated: the integer wrapped in the value a symbolic getter returns
\* is the right-aligned extraction (v AND mask) >> start.
C6_SymbolicRightAligned ==
    (Read /\ ReadField.kind = "sym")
        => ret.value = Extract(backing, ReadField)

\* C6, amended. The integer wrapped in the value a symbolic getter returns
\* is v AND mask, left in field position: the right-aligned extraction
\* shifted left by start. It is below 2^(end+1) and a multiple of 2^start.
C6_SymbolicInPlace ==
    (Read /\ ReadField.kind = "sym")
        => /\ ret.value = Extract(backing, ReadField) * 2^ReadField.start
           /\ ret.value < 2^(ReadField.end + 1)
           /\ ret.value % 2^ReadField.start = 0

\* C6 witness: a symbolic getter of a field that does not start at bit 0
\* returned a non-zero value from a backing value with 1-bits elsewhere.
C6_Witness ==
    /\ Read
    /\ ReadField.kind = "sym"
    /\ ReadField.start > 0
    /\ ret.value # 0
    /\ ret.value # backing

\* C7. Raw-integer getter: for every raw-integer field [start, end] of a
\* register of width W, the getter returns (v AND mask) >> start: the field
\* bits of the backing value, right-aligned, always below 2^(end-start+1).
C7_RawIntegerGetter ==
    (Read /\ ReadField.kind = "int")
        => /\ ret.value = Extract(backing, ReadField)
           /\ ret.value < 2^FieldBits(ReadField)

\* C7 witness: a raw-integer getter of a field that starts above bit 0 and
\* ends below the top bit returned the field's largest value from a backing
\* value with all bits set.
C7_Witness ==
    /\ Read
    /\ ReadField.kind = "int"
    /\ ReadField.start > 0
    /\ ReadField.end < reg.width - 1
    /\ backing = InnerMax(reg.width)
    /\ ret.value = FieldMax(ReadField)

\* C8. Boolean getter: for every boolean field at bit s, the getter returns
\* false exactly when bit s of the backing value is 0 and true exactly when
\* it is 1, whatever the other bits are.
C8_BooleanGetter ==
    (Read /\ ReadField.kind = "bool")
        => (ret.value = (Bit(backing, ReadField.start) = 1))

\* C8 witness: the getter of bit 6 of an 8-bit register returned false from
\* a backing value in which every other bit is 1.
C8_Witness ==
    /\ Read
    /\ ReadField.kind = "bool"
    /\ reg.width = 8
    /\ ReadField.start = 6
    /\ backing = 191
    /\ ret.value = FALSE

\* the new value shifted into place, x << start, of the last setter call
ShiftedNewValue ==
    IF CalledField.kind = "bool"
    THEN Shl(BoolAsUsize(call.arg), CalledField.start)
    ELSE ShlInner(call.arg, CalledField.start, reg.width)

\* the mask bits of the old value cleared
Cleared == BitAnd(before, InnerMax(reg.width) - RangeMask(CalledField))

\* C9 as stated: after a boolean or raw-integer setter call with any new
\* value x, the stored result equals clearing the mask bits of the old
\* value and OR-ing in x << start.
C9_MergeIsClearThenOr ==
    (Called /\ CalledField.kind \in {"bool", "int"})
        => backing = BitOr(Cleared, ShiftedNewValue)

\* C9, amended. After a boolean or raw-integer setter call the stored
\* result equals the old value with the mask bits cleared, OR-ed with
\* (x << start) AND mask; when x fits the field (always, for a boolean)
\* that is the old value with the mask bits cleared OR-ed with x << start.
C9_MergeIsClearThenOrMasked ==
    (Called /\ CalledField.kind \in {"bool", "int"})
        => /\ backing =
                BitOr(Cleared, BitAnd(ShiftedNewValue, RangeMask(CalledField)))
           /\ \/ (CalledField.kind = "int" /\ call.arg > FieldMax(CalledField))
              \/ backing = BitOr(Cleared, ShiftedNewValue)

\* C9 witness: a raw-integer setter replaced a non-zero field by a
\* different non-zero value that fits, in a value with 1-bits outside it.
C9_Witness ==
    /\ Called
    /\ CalledField.kind = "int"
    /\ call.arg <= FieldMax(CalledField)
    /\ call.arg # 0
    /\ Extract(before, CalledField) \notin {0, call.arg}
    /\ Cleared # 0

\* C10. Mask derivation: for the widths 8 and 16 and every range, the MASK
\* constant of the raw-integer accessors equals ((1 << (end-start+1)) - 1)
\* << start, has 1-bits exactly at the positions start..end, and fits the
\* backing width also when end is the top bit; a 1-bit field at bit 15 of a
\* 16-bit register has the mask 2^15.
C10_MaskDerivation ==
    \A i \in FieldIds :
        reg.fields[i].kind = "int" =>
            LET f == reg.fields[i]
                m == MASK(reg.width, f.start, f.end)
            IN  /\ m = RangeMask(f)
                /\ \A n \in 0..(reg.width - 1) :
                       (Bit(m, n) = 1) <=> (f.start <= n /\ n <= f.end)
                /\ m \div 2^reg.width = 0
                /\ (reg.width = 16 /\ f.start = 15 /\ f.end = 15) => m = 32768

\* C10 witness: the setter of the 1-bit raw-integer field at bit 15 of a
\* 16-bit register, called with 1 on the value 0, stored 2^15.
C10_Witness ==
    /\ Called
    /\ reg.width = 16
    /\ CalledField.kind = "int"
    /\ CalledField.start = 15 /\ CalledField.end = 15
    /\ before = 0
    /\ call.arg = 1
    /\ backing = 32768

\* C11. Oversized raw-integer values are silently discarded by the mask:
\* for any argument x of the backing type, a raw-integer setter stores the
\* backing value that setting x mod 2^(end-start+1) stores, the field then
\* holds x mod 2^(end-start+1), and the getter called afterwards returns it.
C11_OversizedDiscarded ==
    (Called /\ CalledField.kind = "int")
        => LET f == CalledField
               x == call.arg % 2^FieldBits(f)
           IN  /\ backing = SetInt(before, reg.width, f.start, f.end, x)
               /\ Extract(backing, f) = x
               /\ (Read /\ ret.field = call.field) => ret.value = x

\* C11 witness: a raw-integer field that ends below the top bit was set,
\* in a value of 0, to the largest value of the backing type, and the
\* getter then returned the field's largest value.
C11_Witness ==
    /\ Called /\ Read /\ ret.field = call.field
    /\ CalledField.kind = "int"
    /\ CalledField.end < reg.width - 1
    /\ before = 0
    /\ call.arg = InnerMax(reg.width)
    /\ call.arg > FieldMax(CalledField)
    /\ ret.value = FieldMax(CalledField)

\* the field bits of v are the bits the setter stores for the constant c
Matches(v, f, c) == BitAnd(v, RangeMask(f)) = BitAnd(c, RangeMask(f))

\* C12. Tolerance of unnamed bit patterns: when the bits of a symbolic
\* field match none of the named constants of its type, the getter returns
\* a value unequal to every named constant; setting that value back leaves
\* the backing value as it was, and the getter called again returns the
\* same value.
C12_UnnamedPatterns ==
    /\ (Read /\ ReadField.kind = "sym"
             /\ \A c \in NamedConsts(ReadField.nt) : ~Matches(backing, ReadField, c))
           => ret.value \notin NamedConsts(ReadField.nt)
    /\ (Called /\ CalledField.kind = "sym"
               /\ call.arg \notin NamedConsts(CalledField.nt)
               /\ call.arg = Getter(CalledField, before))
           => /\ backing = before
              /\ (Read /\ ret.field = call.field) => ret.value = call.arg

\* C12 witness: a symbolic field that does not start at bit 0 held a
\* pattern of no named constant; the value its getter returned was set
\* back and read again.
C12_Witness ==
    /\ Called /\ Read /\ ret.field = call.field
    /\ CalledField.kind = "sym"
    /\ CalledField.start > 0
    /\ \A c \in NamedConsts(CalledField.nt) : ~Matches(before, CalledField, c)
    /\ call.arg = Getter(CalledField, before)
    /\ ret.value = call.arg

\* C13. Idempotence: for every field of every kind, calling the setter again
\* with the argument of the call just made leaves the backing integer as
\* the first call left it.
C13_Idempotent ==
    Called => Setter(CalledField, backing, call.arg) = backing

\* C13 witness: a setter call with an argument that does not fit the field
\* changed the backing value of a register that had 1-bits outside the
\* field.
C13_Witness ==
    /\ Called
    /\ CalledField.kind = "int"
    /\ call.arg > FieldMax(CalledField)
    /\ backing # before
    /\ Cleared # 0

\* C14. Zero/default construction: on a register value whose backing
\* integer is 0, in particular the derived Default, every boolean getter
\* returns false, every raw-integer getter 0, and every symbolic getter a
\* value wrapping 0.
C14_ZeroReadsZero ==
    (Read /\ backing = 0)
        => IF ReadField.kind = "bool" THEN ret.value = FALSE ELSE ret.value = 0

\* C14 witness: a getter was called on a Default value no setter has
\* touched.
C14_Witness ==
    /\ Read
    /\ raw = 0 /\ backing = 0
    /\ ~Called
    /\ ReadField.kind = "sym"
    /\ ReadField.start > 0
    /\ ret.value = 0

\* the ranges of the fields f and h do not overlap
Disjoint(f, h) == f.end < h.start \/ h.end < f.start

\* C15. Setters of disjoint fields commute: after set_A(x), for every field
\* B of the register whose range does not overlap A's and every argument y,
\* calling set_B(y) next leaves the backing integer that set_B(y) followed
\* by set_A(x) leaves when started from the value before set_A(x).
\* (Stated of the value set_A(x) left, before any getter is called on it:
\* getters do not change it.)
C15_DisjointSettersCommute ==
    (Called /\ ~Read) =>
        \A j \in FieldIds :
            Disjoint(CalledField, reg.fields[j]) =>
                \A y \in Args(reg.fields[j]) :
                    Setter(reg.fields[j], backing, y)
                        = Setter(CalledField,
                                 Setter(reg.fields[j], before, y), call.arg)

\* C15 witness: a symbolic setter changed its field, and the setter of a
\* raw-integer field next to it, disjoint from it, changes the result
\* further.
C15_Witness ==
    /\ Called /\ ~Read
    /\ CalledField.kind = "sym"
    /\ backing # before
    /\ \E j \in FieldIds :
           /\ reg.fields[j].kind = "int"
           /\ reg.fields[j].start = CalledField.end + 1
           /\ \E y \in Args(reg.fields[j]) :
                  Setter(reg.fields[j], backing, y) # backing

\* C16. Get-then-set is the identity: when a setter is called with the
\* value the same field's getter returns for the current backing value, the
\* backing integer stays what it was.
C16_GetThenSet ==
    (Called /\ call.arg = Getter(CalledField, before)) => backing = before

\* C16 witness: the value returned by the getter of a symbolic field that
\* does not start at bit 0, a value that is neither a named constant nor
\* Default, was passed to the field's setter.
C16_Witness ==
    /\ Called
    /\ CalledField.kind = "sym"
    /\ CalledField.start > 0
    /\ call.arg = Getter(CalledField, before)
    /\ call.arg \notin SymArgs(CalledField)
    /\ backing = before

\* bit n lies inside no declared field of the register
Uncovered(n) ==
    \A i \in FieldIds : n < reg.fields[i].start \/ n > reg.fields[i].end

====
